---- MODULE Spec2Model ----
(***************************************************************************)
(* update-models.py: scan <script_dir>/src/data/models for "*.csv" and     *)
(* write the sorted file names to models.json in that directory.           *)
(*                                                                         *)
(* Strings are sequences of one-character strings, so that suffix          *)
(* matching, code-point comparison, JSON serialisation and prefixes of a   *)
(* half-written file are computed, not assumed.  The model is of a POSIX   *)
(* build: fnmatch is case-sensitive and text mode writes "\n" unchanged.   *)
(* The print calls (lines 15, 18, 38-42) only write to stdout and are not  *)
(* part of the state.                                                      *)
(***************************************************************************)
EXTENDS Integers, Sequences, FiniteSets, TLC

\* ---------------------------------------------------------------- bounds
MaxEntries == 3     \* entries of the models directory besides models.json

\* ----------------------------------------------------------- file names
aCsv == <<"a", ".", "c", "s", "v">>
bCsv == <<"b", ".", "c", "s", "v">>
UpperModel2Csv == <<"M", "o", "d", "e", "l", "2", ".", "c", "s", "v">>
lowerModel1Csv == <<"m", "o", "d", "e", "l", "1", ".", "c", "s", "v">>
hiddenCsv == <<".", "h", ".", "c", "s", "v">>
notesTxt == <<"n", "o", "t", "e", "s", ".", "t", "x", "t">>
subDir == <<"s", "u", "b">>
xCsv == <<"x", ".", "c", "s", "v">>

\* the names an entry of the models directory can have in this model
Universe == {aCsv, bCsv, UpperModel2Csv, lowerModel1Csv, hiddenCsv, notesTxt, subDir}

\* content of a data file (never read by the tool) and of a directory entry
Data == <<"d">>
DirMark == <<"<dir>">>
ContentOf(n) == IF n = subDir THEN DirMark ELSE Data

\* the files inside a subdirectory of the models directory
Children(n) == IF n = subDir THEN {xCsv} ELSE {}

\* ------------------------------------------------------ string helpers
\* ord(c) for the characters that occur in the model
CodePoint(c) ==
    CASE c = "\n" -> 10  [] c = " " -> 32   [] c = "\"" -> 34 [] c = "*" -> 42
      [] c = "," -> 44   [] c = "." -> 46   [] c = "/" -> 47  [] c = "1" -> 49
      [] c = "2" -> 50   [] c = "M" -> 77   [] c = "[" -> 91  [] c = "\\" -> 92
      [] c = "]" -> 93   [] c = "a" -> 97   [] c = "b" -> 98  [] c = "c" -> 99
      [] c = "d" -> 100  [] c = "e" -> 101  [] c = "h" -> 104 [] c = "j" -> 106
      [] c = "l" -> 108  [] c = "m" -> 109  [] c = "n" -> 110 [] c = "o" -> 111
      [] c = "r" -> 114  [] c = "s" -> 115  [] c = "t" -> 116 [] c = "u" -> 117
      [] c = "v" -> 118  [] c = "x" -> 120  [] c = "{" -> 123

\* str.lower() on one character, by code point
LowerCode(c) == IF CodePoint(c) >= 65 /\ CodePoint(c) <= 90
                THEN CodePoint(c) + 32 ELSE CodePoint(c)

RECURSIVE StrLessIgnoreCase(_, _)
StrLessIgnoreCase(s, t) ==
    IF t = <<>> THEN FALSE
    ELSE IF s = <<>> THEN TRUE
    ELSE IF LowerCode(Head(s)) = LowerCode(Head(t))
         THEN StrLessIgnoreCase(Tail(s), Tail(t))
         ELSE LowerCode(Head(s)) < LowerCode(Head(t))

\* str.__lt__: lexicographic comparison by code point
RECURSIVE StrLess(_, _)
StrLess(s, t) ==
    IF t = <<>> THEN FALSE
    ELSE IF s = <<>> THEN TRUE
    ELSE IF Head(s) = Head(t) THEN StrLess(Tail(s), Tail(t))
    ELSE CodePoint(Head(s)) < CodePoint(Head(t))

\* insertion of x into an ascending list, after the elements not greater
RECURSIVE Insert(_, _)
Insert(x, l) ==
    IF l = <<>> THEN <<x>>
    ELSE IF StrLess(x, Head(l)) THEN <<x>> \o l
    ELSE <<Head(l)>> \o Insert(x, Tail(l))

SortListNone(l) == l

\* list.sort() (line 30): ascending by str.__lt__, stable
RECURSIVE SortList(_)
SortList(l) ==
    IF l = <<>> THEN <<>>
    ELSE Insert(l[Len(l)], SortList(SubSeq(l, 1, Len(l) - 1)))

\* os.path.join(a, b) for a relative b
Join(a, b) == a \o <<"/">> \o b

\* os.path.basename(p): what follows the last "/"
RECURSIVE Basename(_)
Basename(p) ==
    IF \E i \in 1..Len(p) : p[i] = "/"
    THEN Basename(Tail(p))
    ELSE p

\* fnmatch.fnmatchcase(s, p) for patterns of literals and "*"
RECURSIVE FnMatch(_, _)
FnMatch(s, p) ==
    IF p = <<>> THEN s = <<>>
    ELSE IF Head(p) = "*"
         THEN FnMatch(s, Tail(p)) \/ (s # <<>> /\ FnMatch(Tail(s), p))
         ELSE s # <<>> /\ Head(s) = Head(p) /\ FnMatch(Tail(s), Tail(p))

\* ------------------------------------------------------------ the paths
\* line 11: the directory the script is installed in
script_dir == <<"/", "r">>

\* line 12
models_dir == Join(Join(Join(script_dir, <<"s", "r", "c">>), <<"d", "a", "t", "a">>),
                   <<"m", "o", "d", "e", "l", "s">>)

\* line 21: the file-name part of csv_pattern
csv_pattern == <<"*", ".", "c", "s", "v">>

\* line 26: the literal the loop compares each name with
ReservedName == <<"m", "o", "d", "e", "l", "s", ".", "j", "s", "o", "n">>

JsonFileNameWrong == aCsv

\* line 33: the file-name part of json_file
JsonFileName == <<"m", "o", "d", "e", "l", "s", ".", "j", "s", "o", "n">>

\* ------------------------------------------------------------ json.dump
\* json.encoder.py_encode_basestring_ascii on the characters of the model
EscapeChar(c) == IF c = "\"" THEN <<"\\", "\"">>
                 ELSE IF c = "\\" THEN <<"\\", "\\">>
                 ELSE <<c>>

RECURSIVE Escape(_)
Escape(s) == IF s = <<>> THEN <<>> ELSE EscapeChar(Head(s)) \o Escape(Tail(s))

EncodeString(s) == <<"\"">> \o Escape(s) \o <<"\"">>

\* the chunks json.dump(lst, f, indent=2) passes to f.write, in order
Chunks(lst) ==
    IF lst = <<>> THEN << <<"[", "]">> >>
    ELSE [i \in 1..(Len(lst) + 2) |->
            IF i = 1 THEN <<"[", "\n", " ", " ">> \o EncodeString(lst[1])
            ELSE IF i <= Len(lst) THEN <<",", "\n", " ", " ">> \o EncodeString(lst[i])
            ELSE IF i = Len(lst) + 1 THEN <<"\n">>
            ELSE <<"]">>]

RECURSIVE Concat(_)
Concat(ss) == IF ss = <<>> THEN <<>> ELSE Head(ss) \o Concat(Tail(ss))

\* ------------------------------------------------------ the file system
\* os.path.exists(models_dir) (line 14): true of anything at that path
PathExistsAlways(k) == TRUE

PathExists(k) == k # "absent"

\* glob.glob(csv_pattern) (line 24): the entries of models_dir matching the
\* pattern, as paths; a name starting with "." is skipped because the pattern
\* does not start with "."; nothing is listed when models_dir is not a directory
GlobRecursive(k, f) ==
    IF k = "dir"
    THEN {Join(models_dir, n) : n \in {m \in DOMAIN f : FnMatch(m, csv_pattern) /\ Head(m) # "."}}
         \cup UNION {{Join(Join(models_dir, d), c) : c \in {m \in Children(d) : FnMatch(m, csv_pattern)}} :
                        d \in DOMAIN f}
    ELSE {}

Glob(k, f) ==
    IF k = "dir"
    THEN {Join(models_dir, n) : n \in {m \in DOMAIN f :
                                  FnMatch(m, csv_pattern) /\ (Head(csv_pattern) = "." \/ Head(m) # ".")}}
    ELSE {}

CollectAllFiles(k, f) == DOMAIN f

\* lines 22-27: the names the loop appends to csv_files
CollectCsvFiles(k, f) ==
    {Basename(p) : p \in {q \in Glob(k, f) : Basename(q) # ReservedName}}

\* the orders in which the directory listing can return a set of names
Orders(S) == {o \in [1..Cardinality(S) -> S] : \A i, j \in 1..Cardinality(S) : i # j => o[i] # o[j]}

OpenAppend(old) == [content |-> old, pos |-> Len(old)]

OpenUpdate(old) == [content |-> old, pos |-> 0]

\* open(json_file, 'w') (line 35): the file is truncated, the offset is 0
OpenForWrite(old) == [content |-> <<>>, pos |-> 0]

\* write(2) of data at offset p of a file holding c
WriteAt(c, p, data) ==
    SubSeq(c, 1, p) \o data \o SubSeq(c, p + Len(data) + 1, Len(c))

\* the directory with file n holding content c
Put(f, n, c) == [m \in DOMAIN f \cup {n} |-> IF m = n THEN c ELSE f[m]]

\* the directory without entry n
Del(f, n) == [m \in DOMAIN f \ {n} |-> f[m]]

\* line 45-46: the return value of update_models_json() is discarded; the
\* interpreter exits 0 after a normal return and 1 after an uncaught exception
ExitStatus(r) == IF r = "raised" THEN 1 ELSE 0

\* what models.json can hold before the tool runs: an empty file, text that
\* is not JSON, a manifest of an earlier state of the directory
PriorContents == {<<>>, <<"{">>, Concat(Chunks(<<bCsv>>))}

VARIABLES
    kind,       \* what is at models_dir: "absent", "dir" or "file"
    files,      \* the entries of models_dir: name -> content
    pc,         \* "idle", "scan", "open", "dump", "returned", "exited"
    csv_files,  \* line 22
    chunks,     \* the chunks json.dump has still to write
    buf,        \* written to f and not yet to the file
    pos,        \* the file offset of f
    opened,     \* the names the run has opened
    result,     \* "none", "True", "False", "raised", "killed"
    status,     \* the exit status of the process
    start,      \* files when the run began
    hasPrev,    \* the previous run returned True, and then:
    prevCsv,    \*   the names ending in ".csv" when it returned
    prevOut,    \*   the content of models.json when it returned
    touched     \*   the directory was changed since

vars == <<kind, files, pc, csv_files, chunks, buf, pos, opened, result, status,
          start, hasPrev, prevCsv, prevOut, touched>>

locals == <<csv_files, chunks, buf, pos>>

history == <<hasPrev, prevCsv, prevOut, touched>>

\* the names of a directory that end with ".csv"
CsvSuffix == <<".", "c", "s", "v">>
EndsWith(s, suf) ==
    Len(s) >= Len(suf) /\ SubSeq(s, Len(s) - Len(suf) + 1, Len(s)) = suf
CsvNames(f) == {n \in DOMAIN f : EndsWith(n, CsvSuffix)}

Entries(f) == DOMAIN f \ {JsonFileName}

Init ==
    /\ kind \in {"absent", "dir", "file"}
    /\ IF kind = "dir"
       THEN \E S \in SUBSET Universe :
              /\ Cardinality(S) <= MaxEntries
              /\ \/ files = [n \in S |-> ContentOf(n)]
                 \/ \E c \in PriorContents :
                      files = Put([n \in S |-> ContentOf(n)], JsonFileName, c)
       ELSE files = [n \in {} |-> Data]
    /\ pc = "idle"
    /\ csv_files = <<>>
    /\ chunks = <<>>
    /\ buf = <<>>
    /\ pos = 0
    /\ opened = {}
    /\ result = "none"
    /\ status = 0
    /\ start = files
    /\ hasPrev = FALSE
    /\ prevCsv = {}
    /\ prevOut = <<>>
    /\ touched = FALSE

\* ---------------------------------------------- the directory's other users
CreateFile(n) ==
    /\ pc = "idle" /\ kind = "dir"
    /\ n \notin DOMAIN files
    /\ Cardinality(Entries(files)) < MaxEntries
    /\ files' = Put(files, n, ContentOf(n))
    /\ start' = files'
    /\ touched' = TRUE
    /\ UNCHANGED <<kind, pc, locals, opened, result, status, hasPrev, prevCsv, prevOut>>

RemoveFile(n) ==
    /\ pc = "idle" /\ kind = "dir"
    /\ n \in DOMAIN files
    /\ files' = Del(files, n)
    /\ start' = files'
    /\ touched' = TRUE
    /\ UNCHANGED <<kind, pc, locals, opened, result, status, hasPrev, prevCsv, prevOut>>

OverwriteManifest(c) ==
    /\ pc = "idle" /\ kind = "dir"
    /\ IF JsonFileName \in DOMAIN files THEN files[JsonFileName] # c ELSE TRUE
    /\ files' = Put(files, JsonFileName, c)
    /\ start' = files'
    /\ touched' = TRUE
    /\ UNCHANGED <<kind, pc, locals, opened, result, status, hasPrev, prevCsv, prevOut>>

\* ------------------------------------------------------ update_models_json
\* lines 11-16: the existence check
Invoke ==
    /\ pc = "idle"
    /\ start' = files
    /\ opened' = {}
    /\ IF ~PathExists(kind)
       THEN pc' = "returned" /\ result' = "False"
       ELSE pc' = "scan" /\ result' = "none"
    /\ UNCHANGED <<kind, files, locals, status, history>>

\* lines 20-30: the loop over glob.glob, in the order of the listing, and the sort
Scan ==
    /\ pc = "scan"
    /\ \E o \in Orders(CollectCsvFiles(kind, files)) : csv_files' = SortList(o)
    /\ pc' = "open"
    /\ UNCHANGED <<kind, files, chunks, buf, pos, opened, result, status,
                   start, history>>

\* lines 33-35: open(json_file, 'w'); NotADirectoryError or FileNotFoundError
\* when models_dir is not a directory
Open ==
    /\ pc = "open"
    /\ IF kind = "dir"
       THEN LET old == IF JsonFileName \in DOMAIN files THEN files[JsonFileName] ELSE <<>>
                o == OpenForWrite(old)
            IN /\ files' = Put(files, JsonFileName, o.content)
               /\ pos' = o.pos
               /\ opened' = opened \cup {JsonFileName}
               /\ chunks' = Chunks(csv_files)
               /\ pc' = "dump"
               /\ UNCHANGED result
       ELSE /\ pc' = "returned" /\ result' = "raised"
            /\ UNCHANGED <<files, pos, opened, chunks>>
    /\ UNCHANGED <<kind, csv_files, buf, status, start, history>>

\* line 36: one f.write(chunk) of json.dump; f is buffered
WriteChunk ==
    /\ pc = "dump" /\ chunks # <<>>
    /\ buf' = buf \o Head(chunks)
    /\ chunks' = Tail(chunks)
    /\ UNCHANGED <<kind, files, pc, csv_files, pos, opened, result, status,
                   start, history>>

\* the buffer of f is written to the file when it fills up
Flush ==
    /\ pc = "dump" /\ buf # <<>>
    /\ files' = Put(files, JsonFileName, WriteAt(files[JsonFileName], pos, buf))
    /\ pos' = pos + Len(buf)
    /\ buf' = <<>>
    /\ UNCHANGED <<kind, pc, csv_files, chunks, opened, result, status,
                   start, history>>

\* lines 35-43: json.dump has returned; leaving the with block flushes and
\* closes f, and the function returns True
Close ==
    /\ pc = "dump" /\ chunks = <<>>
    /\ files' = Put(files, JsonFileName, WriteAt(files[JsonFileName], pos, buf))
    /\ pos' = pos + Len(buf)
    /\ buf' = <<>>
    /\ pc' = "returned" /\ result' = "True"
    /\ UNCHANGED <<kind, csv_files, chunks, opened, status, start, history>>

\* lines 45-46
Main ==
    /\ pc = "returned"
    /\ status' = ExitStatus(result)
    /\ pc' = "exited"
    /\ UNCHANGED <<kind, files, locals, opened, result, start, history>>

\* the process is killed during the run; what is in the buffer of f is lost
Crash ==
    /\ pc \in {"scan", "open", "dump"}
    /\ pc' = "exited" /\ result' = "killed" /\ status' = 137
    /\ UNCHANGED <<kind, files, locals, opened, start, history>>

\* the process is gone; the next invocation starts afresh
Reset ==
    /\ pc = "exited"
    /\ pc' = "idle"
    /\ hasPrev' = (result = "True")
    /\ prevCsv' = IF result = "True" THEN CsvNames(files) ELSE {}
    /\ prevOut' = IF result = "True" /\ JsonFileName \in DOMAIN files
                  THEN files[JsonFileName] ELSE <<>>
    /\ touched' = FALSE
    /\ csv_files' = <<>> /\ chunks' = <<>> /\ buf' = <<>> /\ pos' = 0
    /\ opened' = {} /\ result' = "none" /\ status' = 0
    /\ start' = files
    /\ UNCHANGED <<kind, files>>

Next ==
    \/ \E n \in Universe : CreateFile(n)
    \/ \E n \in Universe \cup {JsonFileName} : RemoveFile(n)
    \/ \E c \in PriorContents : OverwriteManifest(c)
    \/ Invoke
    \/ Scan
    \/ Open
    \/ WriteChunk
    \/ Flush
    \/ Close
    \/ Main
    \/ Crash
    \/ Reset

Spec == Init /\ [][Next]_vars

\* ------------------------------------------------------------ properties
\* the manifest as the specification names it, and what a reader sees in it
Manifest == <<"m", "o", "d", "e", "l", "s", ".", "j", "s", "o", "n">>
EmptyArray == <<"[", "]">>

HasManifest == Manifest \in DOMAIN files
OnDisk == files[Manifest]

IsPrefix(s, t) == Len(s) <= Len(t) /\ SubSeq(t, 1, Len(s)) = s

\* the strings of a JSON array of plain strings: what lies between the
\* 1st and 2nd, 3rd and 4th, ... double quote
Quotes(t) == {i \in 1..Len(t) : t[i] = "\""}
NthQuote(t, k) == CHOOSE i \in Quotes(t) : Cardinality({j \in Quotes(t) : j <= i}) = k
ParseNames(t) ==
    [k \in 1..(Cardinality(Quotes(t)) \div 2) |->
        SubSeq(t, NthQuote(t, 2 * k - 1) + 1, NthQuote(t, 2 * k) - 1)]
Listed == {ParseNames(OnDisk)[k] : k \in DOMAIN ParseNames(OnDisk)}

\* s precedes t in code-point order: they agree up to a position where s
\* has ended or has the smaller code point
CodePointBefore(s, t) ==
    \E i \in 1..Len(t) :
        /\ \A j \in 1..(i - 1) : j <= Len(s) /\ s[j] = t[j]
        /\ \/ i = Len(s) + 1
           \/ i <= Len(s) /\ CodePoint(s[i]) < CodePoint(t[i])

InRun == pc \in {"scan", "open", "dump", "returned", "exited"}
Ended == pc \in {"returned", "exited"}
Succeeded == Ended /\ result = "True"
NewContent == Concat(Chunks(csv_files))
MidWrite == pc = "dump" /\ chunks # <<>>
ManifestAsBefore ==
    /\ (Manifest \in DOMAIN files) = (Manifest \in DOMAIN start)
    /\ Manifest \in DOMAIN files => files[Manifest] = start[Manifest]

\* C1: when the models directory exists, after a run the manifest lists
\* exactly the direct entries whose name ends with ".csv", whatever their
\* first character, and is [] when there is none.
C1_ManifestIsEveryCsvName ==
    (Succeeded /\ kind = "dir") =>
        /\ HasManifest
        /\ Listed = CsvNames(start)
        /\ CsvNames(start) = {} => OnDisk = EmptyArray

\* C2: when nothing exists at the models path the run returns False and
\* the file system is as it was: no manifest is created or modified.
C2_AbsentDirectoryFailsWithoutWriting ==
    (Ended /\ kind = "absent") =>
        /\ result = "False"
        /\ files = start
        /\ opened = {}
        /\ ~HasManifest

C2_Witness == pc = "exited" /\ kind = "absent" /\ result = "False"

\* C3: a run that ends in the directory-not-found failure exits with a
\* status different from the status of a run that wrote the manifest.
C3_ExitStatusTellsFailure ==
    (pc = "exited" /\ result = "False") => status # ExitStatus("True")

\* C4: the names in the manifest are in strictly ascending code-point
\* order, whatever order the listing returned them in.
C4_ManifestAscendingByCodePoint ==
    Succeeded =>
        \A k \in 1..(Len(ParseNames(OnDisk)) - 1) :
            CodePointBefore(ParseNames(OnDisk)[k], ParseNames(OnDisk)[k + 1])

C4_Witness ==
    Succeeded /\ ParseNames(OnDisk) = <<UpperModel2Csv, aCsv, lowerModel1Csv>>

\* C5: the manifest a run writes never lists "models.json", also when
\* models.json was in the directory when the run scanned it.
C5_ManifestNeverListsItself ==
    Succeeded => Manifest \notin Listed

C5_Witness ==
    Succeeded /\ hasPrev /\ Manifest \in DOMAIN start /\ Listed # {}

\* C6: a second run on a directory left as the first run left it writes
\* the same manifest content as the first.
C6_SecondRunWritesSameBytes ==
    (Succeeded /\ hasPrev /\ ~touched) => OnDisk = prevOut

C6_Witness ==
    Succeeded /\ hasPrev /\ ~touched /\ Len(csv_files) >= 2

\* C7: the manifest after a run is the serialisation of the names scanned
\* at that run and nothing else: it is the same as after the previous run
\* when the .csv names are the same, whatever models.json held in between,
\* and it lists no name that is not in the directory.
C7_ManifestIndependentOfPriorContent ==
    Succeeded =>
        /\ OnDisk = NewContent
        /\ (hasPrev /\ CsvNames(start) = prevCsv) => OnDisk = prevOut
        /\ Listed \subseteq DOMAIN files

C7_Witness ==
    /\ Succeeded /\ hasPrev /\ touched /\ CsvNames(start) = prevCsv
    /\ Manifest \in DOMAIN start /\ start[Manifest] = <<"{">>
    /\ csv_files # <<>>

\* C8: every name in the manifest has no path separator and is a direct
\* entry of the models directory; a .csv file of a subdirectory is not listed.
C8_OnlyDirectEntriesAsBareNames ==
    Succeeded =>
        \A n \in Listed :
            /\ \A i \in 1..Len(n) : n[i] # "/"
            /\ n \in DOMAIN files

C8_Witness ==
    Succeeded /\ subDir \in DOMAIN files /\ Listed # {} /\ xCsv \notin Listed

\* C9 as stated: between the open and the end of the serialisation the
\* manifest on disk is neither the previous content nor the complete new
\* content; at every point of a run it is the previous content or a prefix
\* of the new content.
C9_MidWriteNeitherOldNorNew ==
    /\ MidWrite => (~ManifestAsBefore /\ OnDisk # NewContent)
    /\ InRun => (ManifestAsBefore \/ (HasManifest /\ IsPrefix(OnDisk, NewContent)))

\* C9 amended: between the open and the end of the serialisation the
\* manifest on disk is a proper prefix of the new content; at every point
\* of a run, and after a crash, it is the previous content or a prefix of
\* the new content.
C9_MidWriteProperPrefixOfNew ==
    /\ MidWrite => (HasManifest /\ IsPrefix(OnDisk, NewContent) /\ OnDisk # NewContent)
    /\ InRun => (ManifestAsBefore \/ (HasManifest /\ IsPrefix(OnDisk, NewContent)))

C9_Witness ==
    /\ pc = "exited" /\ result = "killed"
    /\ HasManifest /\ OnDisk # <<>> /\ OnDisk # NewContent
    /\ ~ManifestAsBefore

\* C10: a run changes nothing but models.json: the other entries and their
\* contents are as when the run began, and no other file is opened.
C10_OnlyManifestChanges ==
    InRun =>
        /\ \A n \in (DOMAIN files \cup DOMAIN start) \ {Manifest} :
              /\ n \in DOMAIN files /\ n \in DOMAIN start
              /\ files[n] = start[n]
        /\ opened \subseteq {Manifest}
        /\ result = "False" => files = start

C10_Witness ==
    /\ pc = "exited" /\ result = "True" /\ opened = {Manifest}
    /\ aCsv \in DOMAIN files /\ files[aCsv] = Data
====
